---- MODULE Spec2Model ----
(***************************************************************************)
(* Model of the forced-aspect-generator core: 3D math primitives           *)
(* (perspective/transforms.py), the Camera with its cached matrices        *)
(* (perspective/camera.py) and the GridGenerator with its viewport clipper *)
(* (perspective/grid_generator.py).                                        *)
(*                                                                         *)
(* Floats are modelled as exact rationals <<num, den>> in lowest terms     *)
(* with den > 0; <<0, 0>> stands for the result of a division by zero.     *)
(* Square roots are taken only where they are exact.                       *)
(***************************************************************************)
EXTENDS Integers, Sequences, FiniteSets, TLC

----------------------------------------------------------------------------
(* Exact rational arithmetic standing for Python/numpy float arithmetic.   *)

Abs(n) == IF n < 0 THEN -n ELSE n

RECURSIVE GCD(_, _)
GCD(a, b) == IF b = 0 THEN a ELSE GCD(b, a % b)

NaN == <<0, 0>>

Frac(n, d) ==
    IF d = 0 THEN NaN
    ELSE LET g == GCD(Abs(n), Abs(d))
             s == IF d < 0 THEN -1 ELSE 1
         IN  <<(s * n) \div g, (s * d) \div g>>

R(n) == <<n, 1>>

(* Integer operands (den = 1) are handled without reducing a fraction.     *)
RAdd(a, b) == IF a[2] = 1 /\ b[2] = 1 THEN <<a[1] + b[1], 1>>
              ELSE Frac(a[1] * b[2] + b[1] * a[2], a[2] * b[2])
RSub(a, b) == IF a[2] = 1 /\ b[2] = 1 THEN <<a[1] - b[1], 1>>
              ELSE Frac(a[1] * b[2] - b[1] * a[2], a[2] * b[2])
RMul(a, b) == IF a[2] = 1 /\ b[2] = 1 THEN <<a[1] * b[1], 1>>
              ELSE Frac(a[1] * b[1], a[2] * b[2])
RDiv(a, b) == IF b[1] = 0 THEN NaN
              ELSE IF b = <<1, 1>> THEN a
              ELSE Frac(a[1] * b[2], a[2] * b[1])
RNeg(a)    == <<-a[1], a[2]>>
RAbs(a)    == <<Abs(a[1]), a[2]>>
RLt(a, b)  == a[1] * b[2] < b[1] * a[2]
RLe(a, b)  == a[1] * b[2] <= b[1] * a[2]
RMax(a, b) == IF RLt(a, b) THEN b ELSE a
RMin(a, b) == IF RLt(b, a) THEN b ELSE a

(* int(x) of a non-negative rational: truncation.                          *)
RInt(a) == a[1] \div a[2]

IsSquare(n) == \E r \in 0..n : r * r = n
ISqrt(n)    == CHOOSE r \in 0..n : r * r = n
HasSqrt(a)  == a[1] >= 0 /\ IsSquare(a[1]) /\ IsSquare(a[2])
RSqrt(a)    == <<ISqrt(a[1]), ISqrt(a[2])>>

----------------------------------------------------------------------------
(* perspective/transforms.py                                               *)

Point3D(x, y, z) == [x |-> x, y |-> y, z |-> z]
Point2D(x, y)    == [x |-> x, y |-> y]
Vector3D(x, y, z) == [x |-> x, y |-> y, z |-> z]

(* Integer-coordinate shorthands.                                          *)
P3(x, y, z) == Point3D(R(x), R(y), R(z))

LengthSq(v) == RAdd(RAdd(RMul(v.x, v.x), RMul(v.y, v.y)), RMul(v.z, v.z))

(* v divided by its length, the zero vector when the length is zero.       *)
Normalized(v, length) ==
    IF length[1] = 0 THEN Vector3D(R(0), R(0), R(0))
    ELSE Vector3D(RDiv(v.x, length), RDiv(v.y, length), RDiv(v.z, length))

normalize(v) == Normalized(v, RSqrt(LengthSq(v)))

cross(a, b) ==
    Vector3D(RSub(RMul(a.y, b.z), RMul(a.z, b.y)),
             RSub(RMul(a.z, b.x), RMul(a.x, b.z)),
             RSub(RMul(a.x, b.y), RMul(a.y, b.x)))

dot(a, b) == RAdd(RAdd(RMul(a.x, b.x), RMul(a.y, b.y)), RMul(a.z, b.z))

(* A Matrix4x4 value: 4 rows of 4 entries.                                 *)
Dot4(r, c1, c2, c3, c4) ==
    RAdd(RAdd(RMul(r[1], c1), RMul(r[2], c2)),
         RAdd(RMul(r[3], c3), RMul(r[4], c4)))

MatMulRow(r, B) ==
    << Dot4(r, B[1][1], B[2][1], B[3][1], B[4][1]),
       Dot4(r, B[1][2], B[2][2], B[3][2], B[4][2]),
       Dot4(r, B[1][3], B[2][3], B[3][3], B[4][3]),
       Dot4(r, B[1][4], B[2][4], B[3][4], B[4][4]) >>

MatMul(A, B) ==
    << MatMulRow(A[1], B), MatMulRow(A[2], B),
       MatMulRow(A[3], B), MatMulRow(A[4], B) >>

translation(x, y, z) ==
    << <<R(1), R(0), R(0), x>>,
       <<R(0), R(1), R(0), y>>,
       <<R(0), R(0), R(1), z>>,
       <<R(0), R(0), R(0), R(1)>> >>

(* 1/tan(fov/2) for a field of view in degrees, at the angles whose value *)
(* is a small fraction: 90 (exactly 1), 53.13 = 2*atan(1/2) and           *)
(* 126.87 = 2*atan(2) (2 and 1/2 to four decimal places).                  *)
CotHalf(deg) ==
    CASE deg = R(90)           -> R(1)
      [] deg = Frac(5313, 100)  -> R(2)
      [] deg = Frac(12687, 100) -> Frac(1, 2)
      [] OTHER                  -> R(1)

perspective(fov, aspect_ratio, near, far) ==
    LET f == CotHalf(fov)
    IN  << <<RDiv(f, aspect_ratio), R(0), R(0), R(0)>>,
           <<R(0), f, R(0), R(0)>>,
           <<R(0), R(0), RDiv(RAdd(far, near), RSub(near, far)),
                         RDiv(RMul(R(2), RMul(far, near)), RSub(near, far))>>,
           <<R(0), R(0), R(-1), R(0)>> >>

(* look_at in its three steps: forward, then right, then camera_up and the *)
(* product of the basis matrix with the translation by -eye.               *)
LookAtMatrix(forward, right, camera_up, eye) ==
    MatMul(<< <<right.x, camera_up.x, RNeg(forward.x), R(0)>>,
              <<right.y, camera_up.y, RNeg(forward.y), R(0)>>,
              <<right.z, camera_up.z, RNeg(forward.z), R(0)>>,
              <<R(0), R(0), R(0), R(1)>> >>,
           translation(RNeg(eye.x), RNeg(eye.y), RNeg(eye.z)))

LookAtUp(forward, right, eye) ==
    LookAtMatrix(forward, right, cross(right, forward), eye)

LookAtRight(forward, eye, up) ==
    LookAtUp(forward, normalize(cross(forward, up)), eye)

look_at(eye, target, up) ==
    LookAtRight(normalize(Vector3D(RSub(target.x, eye.x),
                                   RSub(target.y, eye.y),
                                   RSub(target.z, eye.z))), eye, up)

(* look_at takes two square roots; the model draws camera placements only *)
(* from those where both are exact.                                        *)
ExactView(eye, target, up) ==
    LET d == Vector3D(RSub(target.x, eye.x), RSub(target.y, eye.y),
                      RSub(target.z, eye.z))
    IN  /\ HasSqrt(LengthSq(d))
        /\ HasSqrt(LengthSq(cross(normalize(d), up)))

(* self.data @ [x, y, z, 1]                                                *)
Homogeneous(M, p) ==
    << Dot4(M[1], p.x, p.y, p.z, R(1)),
       Dot4(M[2], p.x, p.y, p.z, R(1)),
       Dot4(M[3], p.x, p.y, p.z, R(1)),
       Dot4(M[4], p.x, p.y, p.z, R(1)) >>

(* The perspective divide, made when w is not zero.                        *)
PerspectiveDivide(transformed) ==
    IF transformed[4][1] # 0
    THEN Point3D(RDiv(transformed[1], transformed[4]),
                 RDiv(transformed[2], transformed[4]),
                 RDiv(transformed[3], transformed[4]))
    ELSE Point3D(transformed[1], transformed[2], transformed[3])

transform_point(M, p) == PerspectiveDivide(Homogeneous(M, p))

(* Normalized device coordinates to screen coordinates, Y flipped.         *)
ToScreen(clip_point, screen_width, screen_height) ==
    Point2D(RMul(RMul(RAdd(clip_point.x, R(1)), Frac(1, 2)), R(screen_width)),
            RMul(RMul(RSub(R(1), clip_point.y), Frac(1, 2)), R(screen_height)))

project_to_screen(point_3d, view_matrix, projection_matrix, screen_width, screen_height) ==
    ToScreen(transform_point(projection_matrix,
                             transform_point(view_matrix, point_3d)),
             screen_width, screen_height)

----------------------------------------------------------------------------
(* perspective/grid_generator.py                                           *)

(* Python None: a value equal to no matrix object and no segment.         *)
None == [none |-> TRUE]

(* The (start, end) pair returned by the clipper.                          *)
Segment(start, end) == [start |-> start, end |-> end]

GridLine(start, end, panel_label, line_type) ==
    [start |-> start, end |-> end, panel_label |-> panel_label,
     line_type |-> line_type]

GridConfig(density, show_panel_boundaries, min_line_length) ==
    [density |-> density, show_panel_boundaries |-> show_panel_boundaries,
     show_panel_labels |-> TRUE, min_line_length |-> min_line_length,
     max_lines_per_panel |-> 100]

Panel(label, corners, panel_type) ==
    [label |-> label, corners |-> corners, panel_type |-> panel_type]

RECURSIVE Flatten(_)
Flatten(ss) == IF ss = << >> THEN << >> ELSE Head(ss) \o Flatten(Tail(ss))

(* The loop running all its n - 1 iterations, the break left out.          *)
LoopCountNoBreak(n, stop) == IF n >= 1 THEN n - 1 ELSE 0

(* Number of iterations of `for i in range(1, n)` that run to their end    *)
(* when iteration i breaks at once if stop[i] holds.                       *)
LoopCount(n, stop) ==
    IF \E i \in 1..(n - 1) : stop[i]
    THEN (CHOOSE i \in 1..(n - 1) : stop[i] /\ \A j \in 1..(i - 1) : ~stop[j]) - 1
    ELSE IF n >= 1 THEN n - 1 ELSE 0

Bit(code, b) == (code \div b) % 2 = 1

(* Margin with the 50% expansion left out (the plain screen rectangle).    *)
MarginDropped(screen_width, screen_height) == R(0)

Margin(screen_width, screen_height) ==
    RMul(R(IF screen_width >= screen_height THEN screen_width
           ELSE screen_height), Frac(1, 2))

(* The expanded viewport bounds.                                           *)
x_min(screen_width, screen_height) == RNeg(Margin(screen_width, screen_height))
y_min(screen_width, screen_height) == RNeg(Margin(screen_width, screen_height))
x_max(screen_width, screen_height) ==
    RAdd(R(screen_width), Margin(screen_width, screen_height))
y_max(screen_width, screen_height) ==
    RAdd(R(screen_height), Margin(screen_width, screen_height))

compute_code(x, y, screen_width, screen_height) ==
      (IF RLt(x, x_min(screen_width, screen_height)) THEN 1
       ELSE IF RLt(x_max(screen_width, screen_height), x) THEN 2 ELSE 0)
    + (IF RLt(y, y_min(screen_width, screen_height)) THEN 4
       ELSE IF RLt(y_max(screen_width, screen_height), y) THEN 8 ELSE 0)

(* The line through (x1,y1) and (x2,y2) at height yb, and at abscissa xb.  *)
AtY(x1, y1, x2, y2, yb) ==
    RAdd(x1, RDiv(RMul(RSub(x2, x1), RSub(yb, y1)), RSub(y2, y1)))
AtX(x1, y1, x2, y2, xb) ==
    RAdd(y1, RDiv(RMul(RSub(y2, y1), RSub(xb, x1)), RSub(x2, x1)))

(* An outside endpoint moved straight to the nearest point of the          *)
(* viewport instead of along the line.                                     *)
ClipPointNearest(code, x1, y1, x2, y2, screen_width, screen_height) ==
    IF code = compute_code(x1, y1, screen_width, screen_height)
    THEN Point2D(RMax(x_min(screen_width, screen_height),
                      RMin(x1, x_max(screen_width, screen_height))),
                 RMax(y_min(screen_width, screen_height),
                      RMin(y1, y_max(screen_width, screen_height))))
    ELSE Point2D(RMax(x_min(screen_width, screen_height),
                      RMin(x2, x_max(screen_width, screen_height))),
                 RMax(y_min(screen_width, screen_height),
                      RMin(y2, y_max(screen_width, screen_height))))

(* The intersection point chosen for the out code `code`.              *)
ClipPoint(code, x1, y1, x2, y2, screen_width, screen_height) ==
    IF Bit(code, 8)
    THEN Point2D(AtY(x1, y1, x2, y2, y_max(screen_width, screen_height)),
                 y_max(screen_width, screen_height))
    ELSE IF Bit(code, 4)
    THEN Point2D(AtY(x1, y1, x2, y2, y_min(screen_width, screen_height)),
                 y_min(screen_width, screen_height))
    ELSE IF Bit(code, 2)
    THEN Point2D(x_max(screen_width, screen_height),
                 AtX(x1, y1, x2, y2, x_max(screen_width, screen_height)))
    ELSE Point2D(x_min(screen_width, screen_height),
                 AtX(x1, y1, x2, y2, x_min(screen_width, screen_height)))

(* The while-True loop of _clip_line_to_viewport; `n` counts the endpoint *)
(* replacements made so far.                                               *)
RECURSIVE ClipLoop(_, _, _, _, _, _, _)

(* The endpoint whose code is code is replaced by p.                   *)
ClipReplace(x1, y1, x2, y2, screen_width, screen_height, n, code1, code, p) ==
    IF code = code1
    THEN ClipLoop(p.x, p.y, x2, y2, screen_width, screen_height, n + 1)
    ELSE ClipLoop(x1, y1, p.x, p.y, screen_width, screen_height, n + 1)

(* The divisor of the interpolation made for the out code `code`.          *)
ClipDenominator(code, x1, y1, x2, y2) ==
    IF Bit(code, 8) \/ Bit(code, 4) THEN RSub(y2, y1) ELSE RSub(x2, x1)

(* The outcome r of the rest of the loop, after a division by d.           *)
Divided(r, d) == [r EXCEPT !.zero_division = @ \/ d[1] = 0]

(* One pass of the loop with the same-region rejection left out.           *)
ClipStepNoReject(x1, y1, x2, y2, screen_width, screen_height, n, code1, code2) ==
    IF code1 = 0 /\ code2 = 0
    THEN [result |-> Segment(Point2D(x1, y1), Point2D(x2, y2)), replacements |-> n,
          zero_division |-> FALSE]
    ELSE Divided(
            ClipReplace(x1, y1, x2, y2, screen_width, screen_height, n, code1,
                        IF code1 # 0 THEN code1 ELSE code2,
                        ClipPoint(IF code1 # 0 THEN code1 ELSE code2,
                                  x1, y1, x2, y2, screen_width, screen_height)),
            ClipDenominator(IF code1 # 0 THEN code1 ELSE code2, x1, y1, x2, y2))

(* One pass of the loop, given the codes of the two endpoints.             *)
ClipStep(x1, y1, x2, y2, screen_width, screen_height, n, code1, code2) ==
    IF code1 = 0 /\ code2 = 0
    THEN [result |-> Segment(Point2D(x1, y1), Point2D(x2, y2)), replacements |-> n,
          zero_division |-> FALSE]
    ELSE IF \E b \in {1, 2, 4, 8} : Bit(code1, b) /\ Bit(code2, b)
    THEN [result |-> None, replacements |-> n, zero_division |-> FALSE]
    ELSE Divided(
            ClipReplace(x1, y1, x2, y2, screen_width, screen_height, n, code1,
                        IF code1 # 0 THEN code1 ELSE code2,
                        ClipPoint(IF code1 # 0 THEN code1 ELSE code2,
                                  x1, y1, x2, y2, screen_width, screen_height)),
            ClipDenominator(IF code1 # 0 THEN code1 ELSE code2, x1, y1, x2, y2))

ClipLoop(x1, y1, x2, y2, screen_width, screen_height, n) ==
    ClipStep(x1, y1, x2, y2, screen_width, screen_height, n,
             compute_code(x1, y1, screen_width, screen_height),
             compute_code(x2, y2, screen_width, screen_height))

clip_line_to_viewport(start, end, screen_width, screen_height) ==
    ClipLoop(start.x, start.y, end.x, end.y, screen_width, screen_height, 0).result

(* The spacing growing with density (base_spacing * density).              *)
calculate_grid_spacing_multiplied(config, dimension) ==
    IF RLe(dimension, R(0)) THEN R(1)
    ELSE LET base_spacing == RMul(dimension, Frac(1, 10))
             spacing      == RMul(base_spacing, config.density)
             min_spacing  == RMul(dimension, Frac(2, 100))
             max_spacing  == RMul(dimension, Frac(5, 10))
         IN  RMax(min_spacing, RMin(spacing, max_spacing))

calculate_grid_spacing(config, dimension) ==
    IF RLe(dimension, R(0)) THEN R(1)
    ELSE LET base_spacing == RMul(dimension, Frac(1, 10))
             spacing      == RDiv(base_spacing, config.density)
             min_spacing  == RMul(dimension, Frac(2, 100))
             max_spacing  == RMul(dimension, Frac(5, 10))
         IN  RMax(min_spacing, RMin(spacing, max_spacing))

(* The length filter keeping every line.                                   *)
LongEnoughUnfiltered(config, line) == TRUE

(* sqrt(dx*dx + dy*dy) >= min_line_length, compared on the squares.        *)
LongEnough(config, line) ==
    LET dx == RSub(line.end.x, line.start.x)
        dy == RSub(line.end.y, line.start.y)
        l2 == RAdd(RMul(dx, dx), RMul(dy, dy))
        m  == config.min_line_length
    IN  RLt(m, R(0)) \/ RLe(RMul(m, m), l2)

(* The boundary line kept for an edge: none when the edge was clipped away.*)
BoundaryLine(clipped_line, panel) ==
    IF clipped_line # None
    THEN <<GridLine(clipped_line.start, clipped_line.end, panel.label, "boundary")>>
    ELSE << >>

(* One edge of the boundary: both corners projected, the segment clipped.  *)
BoundaryEdge(start_3d, end_3d, panel, view_matrix, projection_matrix, screen_width, screen_height) ==
    BoundaryLine(
        clip_line_to_viewport(
            project_to_screen(start_3d, view_matrix, projection_matrix,
                              screen_width, screen_height),
            project_to_screen(end_3d, view_matrix, projection_matrix,
                              screen_width, screen_height),
            screen_width, screen_height),
        panel)

(* Boundary generation without the corner-count check: one edge per       *)
(* corner, wrapping at the number of corners the panel has.                *)
generate_panel_boundary_any_count(config, panel, view_matrix, projection_matrix, screen_width, screen_height) ==
    Flatten([i \in 1..Len(panel.corners) |->
                BoundaryEdge(panel.corners[i],
                             panel.corners[(i % Len(panel.corners)) + 1], panel,
                             view_matrix, projection_matrix,
                             screen_width, screen_height)])

generate_panel_boundary(config, panel, view_matrix, projection_matrix, screen_width, screen_height) ==
    IF Len(panel.corners) # 4 THEN << >>
    ELSE Flatten([i \in 1..4 |->
                     BoundaryEdge(panel.corners[i], panel.corners[(i % 4) + 1],
                                  panel, view_matrix, projection_matrix,
                                  screen_width, screen_height)])

(* An interior line before projection: its 3D endpoints and its type.      *)
Line3D(start_3d, end_3d, line_type) ==
    [start |-> start_3d, end |-> end_3d, line_type |-> line_type]

(* GridLine(project_to_screen(start_3d), project_to_screen(end_3d), ...)   *)
(* for each interior line, in order.                                       *)
ProjectLines(lines_3d, panel, view_matrix, projection_matrix, screen_width, screen_height) ==
    [i \in 1..Len(lines_3d) |->
        GridLine(project_to_screen(lines_3d[i].start, view_matrix,
                                   projection_matrix, screen_width, screen_height),
                 project_to_screen(lines_3d[i].end, view_matrix,
                                   projection_matrix, screen_width, screen_height),
                 panel.label, lines_3d[i].line_type)]

(* The two loops of _generate_floor_grid, for a given spacing.             *)
FloorLines3D(corners, grid_spacing) ==
    LET origin    == corners[1]
        right     == corners[2]
        far_left  == corners[4]
        width == RAbs(RSub(right.x, origin.x))
        depth == RAbs(RSub(far_left.z, origin.z))
        num_x_lines == RInt(RDiv(depth, grid_spacing)) + 1
        z_pos(i) == RAdd(origin.z, RMul(R(i), grid_spacing))
        StopX == [i \in 1..(num_x_lines - 1) |-> RLe(far_left.z, z_pos(i))]
        x_lines == [i \in 1..LoopCount(num_x_lines, StopX) |->
                      Line3D(Point3D(origin.x, origin.y, z_pos(i)),
                             Point3D(right.x, origin.y, z_pos(i)), "horizontal")]
        num_z_lines == RInt(RDiv(width, grid_spacing)) + 1
        x_pos(i) == RAdd(origin.x, RMul(R(i), grid_spacing))
        StopZ == [i \in 1..(num_z_lines - 1) |-> RLe(right.x, x_pos(i))]
        z_lines == [i \in 1..LoopCount(num_z_lines, StopZ) |->
                      Line3D(Point3D(x_pos(i), origin.y, origin.z),
                             Point3D(x_pos(i), origin.y, far_left.z), "vertical")]
    IN  x_lines \o z_lines

(* The floor's width and depth, and the one spacing used for both axes.    *)
FloorWidth(corners) == RAbs(RSub(corners[2].x, corners[1].x))
FloorDepth(corners) == RAbs(RSub(corners[4].z, corners[1].z))

floor_grid_spacing(config, corners) ==
    calculate_grid_spacing(config, RMax(FloorWidth(corners), FloorDepth(corners)))

(* The interior lines of a floor before projection.                        *)
FloorGrid3D(config, panel) ==
    FloorLines3D(panel.corners, floor_grid_spacing(config, panel.corners))

generate_floor_grid(config, panel, view_matrix, projection_matrix, screen_width, screen_height) ==
    ProjectLines(FloorGrid3D(config, panel),
                 panel, view_matrix, projection_matrix, screen_width, screen_height)

(* The two loops of _generate_wall_grid, for given spacings.               *)
WallLines3D(corners, left, grid_spacing_width, grid_spacing_height) ==
    LET bottom_near == corners[1]
        bottom_far  == corners[2]
        top_near    == corners[4]
        width  == IF left THEN RAbs(RSub(bottom_far.z, bottom_near.z))
                  ELSE RAbs(RSub(bottom_far.x, bottom_near.x))
        height == RAbs(RSub(top_near.y, bottom_near.y))
        num_h_lines == RInt(RDiv(height, grid_spacing_height)) + 1
        y_pos(i) == RAdd(bottom_near.y, RMul(R(i), grid_spacing_height))
        StopH == [i \in 1..(num_h_lines - 1) |-> RLe(top_near.y, y_pos(i))]
        h_lines == [i \in 1..LoopCount(num_h_lines, StopH) |->
                      Line3D(Point3D(bottom_near.x, y_pos(i), bottom_near.z),
                             Point3D(bottom_far.x, y_pos(i), bottom_far.z),
                             "horizontal")]
        num_v_lines == RInt(RDiv(width, grid_spacing_width)) + 1
        w_pos(i) == RAdd(IF left THEN bottom_near.z ELSE bottom_near.x,
                         RMul(R(i), grid_spacing_width))
        StopV == [i \in 1..(num_v_lines - 1) |-> RLe(IF left THEN bottom_far.z ELSE bottom_far.x, w_pos(i))]
        v_lines == [i \in 1..LoopCount(num_v_lines, StopV) |->
                      IF left
                      THEN Line3D(Point3D(bottom_near.x, bottom_near.y, w_pos(i)),
                                  Point3D(top_near.x, top_near.y, w_pos(i)),
                                  "vertical")
                      ELSE Line3D(Point3D(w_pos(i), bottom_near.y, bottom_near.z),
                                  Point3D(w_pos(i), top_near.y, top_near.z),
                                  "vertical")]
    IN  h_lines \o v_lines

(* The wall's width and height as _generate_wall_grid measures them.       *)
WallWidth(panel) ==
    IF panel.label = "Left Wall"
    THEN RAbs(RSub(panel.corners[2].z, panel.corners[1].z))
    ELSE RAbs(RSub(panel.corners[2].x, panel.corners[1].x))
WallHeight(panel) == RAbs(RSub(panel.corners[4].y, panel.corners[1].y))

(* The interior lines of a wall before projection.                         *)
WallGrid3D(config, panel) ==
    IF WallWidth(panel)[1] = 0 \/ WallHeight(panel)[1] = 0 THEN << >>
    ELSE WallLines3D(panel.corners, panel.label = "Left Wall",
                     calculate_grid_spacing(config, WallWidth(panel)),
                     calculate_grid_spacing(config, WallHeight(panel)))

generate_wall_grid(config, panel, view_matrix, projection_matrix, screen_width, screen_height) ==
    ProjectLines(WallGrid3D(config, panel),
                 panel, view_matrix, projection_matrix, screen_width, screen_height)

(* The interior lines of a panel before projection, and the spacings used  *)
(* along its first (corner 0 to 1) and second (corner 0 to 3) axis.        *)
InteriorGrid3D(config, panel) ==
    IF Len(panel.corners) # 4 THEN << >>
    ELSE IF panel.panel_type = "floor" THEN FloorGrid3D(config, panel)
    ELSE IF panel.panel_type = "wall" THEN WallGrid3D(config, panel)
    ELSE << >>

GridSpacings(config, panel) ==
    IF panel.panel_type = "floor"
    THEN <<floor_grid_spacing(config, panel.corners),
           floor_grid_spacing(config, panel.corners)>>
    ELSE <<calculate_grid_spacing(config, WallWidth(panel)),
           calculate_grid_spacing(config, WallHeight(panel))>>

generate_interior_grid(config, panel, view_matrix, projection_matrix, screen_width, screen_height) ==
    IF Len(panel.corners) # 4 THEN << >>
    ELSE IF panel.panel_type = "floor"
    THEN generate_floor_grid(config, panel, view_matrix, projection_matrix,
                             screen_width, screen_height)
    ELSE IF panel.panel_type = "wall"
    THEN generate_wall_grid(config, panel, view_matrix, projection_matrix,
                            screen_width, screen_height)
    ELSE << >>

(* The panel grid with the interior lines put before the boundary.         *)
generate_panel_grid_interior_first(config, panel, view_matrix, projection_matrix, screen_width, screen_height) ==
    generate_interior_grid(config, panel, view_matrix, projection_matrix,
                           screen_width, screen_height)
    \o (IF config.show_panel_boundaries
        THEN generate_panel_boundary(config, panel, view_matrix, projection_matrix,
                                     screen_width, screen_height)
        ELSE << >>)

generate_panel_grid(config, panel, view_matrix, projection_matrix, screen_width, screen_height) ==
    (IF config.show_panel_boundaries
     THEN generate_panel_boundary(config, panel, view_matrix, projection_matrix,
                                  screen_width, screen_height)
     ELSE << >>)
    \o generate_interior_grid(config, panel, view_matrix, projection_matrix,
                              screen_width, screen_height)

(* A Python dict as a function from its keys; {} is the empty function.    *)
EmptyDict == << >>

LineTypes == {"horizontal", "vertical", "boundary"}

(* The counting loop of get_grid_stats over the lines not yet counted.     *)
(* stats["line_types"][line_type] += 1 raises KeyError for a type that is  *)
(* not a key.                                                              *)
RECURSIVE CountLines(_, _)
CountLines(lines, stats) ==
    IF lines = << >> THEN stats
    ELSE IF Head(lines).line_type \notin DOMAIN stats.line_types
    THEN [error |-> "KeyError"]
    ELSE CountLines(Tail(lines),
            [stats EXCEPT
               !.panels = IF Head(lines).panel_label \in DOMAIN stats.panels
                          THEN [stats.panels EXCEPT ![Head(lines).panel_label] = @ + 1]
                          ELSE (Head(lines).panel_label :> 1) @@ stats.panels,
               !.line_types[Head(lines).line_type] = @ + 1])

get_grid_stats(lines) ==
    IF lines = << >> THEN [total_lines |-> 0, panels |-> EmptyDict]
    ELSE CountLines(lines, [total_lines |-> Len(lines), panels |-> EmptyDict,
                            line_types |-> [t \in LineTypes |-> 0]])

----------------------------------------------------------------------------
(* perspective/camera.py                                                   *)

CameraConfig(position, target, fov_degrees) ==
    [position |-> position, target |-> target, fov_degrees |-> fov_degrees,
     near_plane |-> Frac(1, 10), far_plane |-> R(100),
     up_vector |-> Vector3D(R(0), R(1), R(0))]

(* Camera.__init__.  `allocated` counts the Matrix4x4 objects this camera  *)
(* has created; a matrix object is [id, m] with id its identity.           *)
Camera(config) ==
    [config |-> config, view_matrix |-> None, projection_matrix |-> None,
     needs_update |-> TRUE, allocated |-> 0]

update_matrices(c, aspect_ratio) ==
    [c EXCEPT
        !.view_matrix = [id |-> c.allocated + 1,
                         m  |-> look_at(c.config.position, c.config.target,
                                        c.config.up_vector)],
        !.projection_matrix = [id |-> c.allocated + 2,
                               m  |-> perspective(c.config.fov_degrees, aspect_ratio,
                                                  c.config.near_plane,
                                                  c.config.far_plane)],
        !.needs_update = FALSE,
        !.allocated = c.allocated + 2]

(* Each getter yields the camera after the call and the returned object.   *)
ReturnView(c) == [cam |-> c, ret |-> c.view_matrix]
ReturnProjection(c) == [cam |-> c, ret |-> c.projection_matrix]

(* The view getter recomputing on every access.                           *)
get_view_matrix_uncached(c) == ReturnView(update_matrices(c, R(1)))

get_view_matrix(c) ==
    ReturnView(IF c.needs_update \/ c.view_matrix = None
               THEN update_matrices(c, R(1)) ELSE c)

get_projection_matrix(c, aspect_ratio) ==
    ReturnProjection(IF c.needs_update \/ c.projection_matrix = None
                     THEN update_matrices(c, aspect_ratio) ELSE c)

(* [line for line in all_lines if length(line) >= min_line_length]         *)
FilterLines(config, lines) ==
    LET F[i \in 0..Len(lines)] ==
          IF i = 0 THEN << >>
          ELSE IF LongEnough(config, lines[i]) THEN Append(F[i - 1], lines[i])
          ELSE F[i - 1]
    IN  F[Len(lines)]

(* generate_grid in its steps: v and p are what the two getters yielded.   *)
(* The outcome is the camera after the call, the two matrices used, the    *)
(* lines generated and the list returned.                                  *)
GridFiltered(config, v, p, all_lines) ==
    [cam |-> p.cam, view_matrix |-> v.ret, projection_matrix |-> p.ret,
     all_lines |-> all_lines, ret |-> FilterLines(config, all_lines)]

GridOfPanels(config, panels, v, p, screen_width, screen_height) ==
    GridFiltered(config, v, p,
        Flatten([i \in 1..Len(panels) |->
                    generate_panel_grid(config, panels[i], v.ret.m, p.ret.m,
                                        screen_width, screen_height)]))

GridWithView(config, panels, v, screen_width, screen_height) ==
    GridOfPanels(config, panels, v,
                 get_projection_matrix(v.cam, Frac(screen_width, screen_height)),
                 screen_width, screen_height)

generate_grid(config, panels, c, screen_width, screen_height) ==
    GridWithView(config, panels, get_view_matrix(c), screen_width, screen_height)

fov_degrees(c) == c.config.fov_degrees

(* The position setter without the cache invalidation.                    *)
set_position_no_invalidate(c, value) ==
    [c EXCEPT !.config.position = value]

set_position(c, value) ==
    [c EXCEPT !.config.position = value, !.needs_update = TRUE]

set_target(c, value) ==
    [c EXCEPT !.config.target = value, !.needs_update = TRUE]

(* The fov setter assigning before it validates.                          *)
set_fov_degrees_assign_first(c, value) ==
    [cam |-> [c EXCEPT !.config.fov_degrees = value, !.needs_update = TRUE],
     error |-> ~(RLe(R(1), value) /\ RLe(value, R(179)))]

(* Setters that can raise yield the camera after the call and whether a   *)
(* ValueError was raised.                                                  *)
set_fov_degrees(c, value) ==
    IF ~(RLe(R(1), value) /\ RLe(value, R(179)))
    THEN [cam |-> c, error |-> TRUE]
    ELSE [cam |-> [c EXCEPT !.config.fov_degrees = value, !.needs_update = TRUE],
          error |-> FALSE]

get_distance_to_target(c) ==
    LET dx == RSub(c.config.target.x, c.config.position.x)
        dy == RSub(c.config.target.y, c.config.position.y)
        dz == RSub(c.config.target.z, c.config.position.z)
    IN  RSqrt(RAdd(RAdd(RMul(dx, dx), RMul(dy, dy)), RMul(dz, dz)))

(* The move made away from the camera side: target - direction * distance. *)
MoveAlongBackwards(c, direction, distance) ==
    set_position(c, Point3D(
        RSub(c.config.target.x, RMul(direction.x, distance)),
        RSub(c.config.target.y, RMul(direction.y, distance)),
        RSub(c.config.target.z, RMul(direction.z, distance))))

(* position = target + direction * distance                                *)
MoveAlong(c, direction, distance) ==
    set_position(c, Point3D(
        RAdd(c.config.target.x, RMul(direction.x, distance)),
        RAdd(c.config.target.y, RMul(direction.y, distance)),
        RAdd(c.config.target.z, RMul(direction.z, distance))))

(* The distance setter marking the cache stale before it raises.           *)
SetDistanceFromMarkingStale(c, distance, current_distance) ==
    IF RLe(distance, R(0)) \/ current_distance[1] = 0
    THEN [cam |-> [c EXCEPT !.needs_update = TRUE], error |-> TRUE]
    ELSE [cam |-> MoveAlong(c, Vector3D(
                    RDiv(RSub(c.config.position.x, c.config.target.x), current_distance),
                    RDiv(RSub(c.config.position.y, c.config.target.y), current_distance),
                    RDiv(RSub(c.config.position.z, c.config.target.z), current_distance)),
                    distance),
          error |-> FALSE]

(* set_distance_to_target once the current distance has been measured.     *)
SetDistanceFrom(c, distance, current_distance) ==
    IF RLe(distance, R(0)) THEN [cam |-> c, error |-> TRUE]
    ELSE IF current_distance[1] = 0 THEN [cam |-> c, error |-> TRUE]
    ELSE [cam |-> MoveAlong(c, Vector3D(
                    RDiv(RSub(c.config.position.x, c.config.target.x), current_distance),
                    RDiv(RSub(c.config.position.y, c.config.target.y), current_distance),
                    RDiv(RSub(c.config.position.z, c.config.target.z), current_distance)),
                    distance),
          error |-> FALSE]

set_distance_to_target(c, distance) ==
    SetDistanceFrom(c, distance, get_distance_to_target(c))

(* np.cos / np.sin of an angle in degrees, for multiples of 90 degrees.    *)
CosDeg(d) == CASE d % 360 = 0 -> R(1) [] d % 360 = 180 -> R(-1) [] OTHER -> R(0)
SinDeg(d) == CASE d % 360 = 90 -> R(1) [] d % 360 = 270 -> R(-1) [] OTHER -> R(0)

(* The orbit with azimuth measured from the +Z axis (x and z exchanged).    *)
orbit_around_target_from_z(c, azimuth_degrees, elevation_degrees, distance) ==
    LET x == RMul(distance, RMul(CosDeg(elevation_degrees), SinDeg(azimuth_degrees)))
        y == RMul(distance, SinDeg(elevation_degrees))
        z == RMul(distance, RMul(CosDeg(elevation_degrees), CosDeg(azimuth_degrees)))
    IN  IF RLe(distance, R(0)) THEN [cam |-> c, error |-> TRUE]
        ELSE [cam |-> set_position(c, Point3D(RAdd(c.config.target.x, x),
                                              RAdd(c.config.target.y, y),
                                              RAdd(c.config.target.z, z))),
              error |-> FALSE]

orbit_around_target(c, azimuth_degrees, elevation_degrees, distance) ==
    LET x == RMul(distance, RMul(CosDeg(elevation_degrees), CosDeg(azimuth_degrees)))
        y == RMul(distance, SinDeg(elevation_degrees))
        z == RMul(distance, RMul(CosDeg(elevation_degrees), SinDeg(azimuth_degrees)))
    IN  IF RLe(distance, R(0)) THEN [cam |-> c, error |-> TRUE]
        ELSE [cam |-> set_position(c, Point3D(RAdd(c.config.target.x, x),
                                              RAdd(c.config.target.y, y),
                                              RAdd(c.config.target.z, z))),
              error |-> FALSE]

----------------------------------------------------------------------------
(* layouts/base_layout.py, layouts/three_panel.py                          *)

PanelDimensions(width, height) ==
    [width |-> width, height |-> height, units |-> "inches"]

RoomDimensions(width, height, depth) ==
    [width |-> width, height |-> height, depth |-> depth, units |-> "feet"]

LayoutConfig(panel_dimensions, room_dimensions, layout_type) ==
    [panel_dimensions |-> panel_dimensions, room_dimensions |-> room_dimensions,
     layout_type |-> layout_type]

(* The validation with the room depth left unchecked.                      *)
validate_without_depth(config) ==
    IF RLe(config.panel_dimensions.width, R(0))
       \/ RLe(config.panel_dimensions.height, R(0))
    THEN FALSE
    ELSE IF RLe(config.room_dimensions.width, R(0))
            \/ RLe(config.room_dimensions.height, R(0))
    THEN FALSE
    ELSE TRUE

validate(config) ==
    IF RLe(config.panel_dimensions.width, R(0))
       \/ RLe(config.panel_dimensions.height, R(0))
    THEN FALSE
    ELSE IF RLe(config.room_dimensions.width, R(0))
            \/ RLe(config.room_dimensions.height, R(0))
            \/ RLe(config.room_dimensions.depth, R(0))
    THEN FALSE
    ELSE TRUE

(* BaseLayout.__init__: the layout object, or the ValueError raised.       *)
BaseLayout(config) ==
    IF ~validate(config) THEN [error |-> TRUE]
    ELSE [error |-> FALSE, config |-> config, panels |-> None]

ThreePanelLayout(config) ==
    BaseLayout([config EXCEPT !.layout_type = "3panel"])

to_inches(units) ==
    CASE units = "inches" -> R(1)
      [] units = "feet"   -> R(12)
      [] units = "meters" -> Frac(3937, 100)
      [] units = "cm"     -> Frac(3937, 10000)
      [] units = "mm"     -> Frac(394, 10000)
      [] OTHER            -> R(1)

get_scale_factor(config) ==
    RDiv(to_inches(config.room_dimensions.units),
         to_inches(config.panel_dimensions.units))

create_floor_panel(width, depth) ==
    Panel("Floor",
          <<Point3D(R(0), R(0), R(0)), Point3D(width, R(0), R(0)),
            Point3D(width, R(0), depth), Point3D(R(0), R(0), depth)>>,
          "floor")

(* The left wall built in the plane x = depth.                             *)
create_left_wall_panel_shifted(depth, height) ==
    Panel("Left Wall",
          <<Point3D(depth, R(0), R(0)), Point3D(depth, R(0), depth),
            Point3D(depth, height, depth), Point3D(depth, height, R(0))>>,
          "wall")

create_left_wall_panel(depth, height) ==
    Panel("Left Wall",
          <<Point3D(R(0), R(0), R(0)), Point3D(R(0), R(0), depth),
            Point3D(R(0), height, depth), Point3D(R(0), height, R(0))>>,
          "wall")

create_right_wall_panel(width, height) ==
    Panel("Right Wall",
          <<Point3D(R(0), R(0), R(0)), Point3D(width, R(0), R(0)),
            Point3D(width, height, R(0)), Point3D(R(0), height, R(0))>>,
          "wall")

CreatePanelsScaled(room, scale) ==
    << create_floor_panel(RMul(room.width, scale), RMul(room.depth, scale)),
       create_left_wall_panel(RMul(room.depth, scale), RMul(room.height, scale)),
       create_right_wall_panel(RMul(room.width, scale), RMul(room.height, scale)) >>

create_panels(config) ==
    CreatePanelsScaled(config.room_dimensions, get_scale_factor(config))

(* A list object: its identity and its items.  A call returns the layout   *)
(* as it leaves it, the number of lists created so far and the value.      *)
ListObject(id, items) == [id |-> id, items |-> items]

Returned(lay, created, ret) == [layout |-> lay, heap |-> created, ret |-> ret]

StorePanels(lay, created, panels) ==
    Returned([lay EXCEPT !.panels = panels], created, panels)

(* get_panels building a new list at every call.                           *)
get_panels_uncached(lay, created) ==
    StorePanels(lay, created + 1, ListObject(created + 1, create_panels(lay.config)))

get_panels(lay, created) ==
    IF lay.panels = None
    THEN StorePanels(lay, created + 1,
                     ListObject(created + 1, create_panels(lay.config)))
    ELSE Returned(lay, created, lay.panels)

get_panel_count(lay) == 3

MaxOf(S) == CHOOSE m \in S : \A v \in S : RLe(v, m)
MinOf(S) == CHOOSE m \in S : \A v \in S : RLe(m, v)

Bounds(xs, ys, zs) ==
    [min_x |-> MinOf(xs), max_x |-> MaxOf(xs),
     min_y |-> MinOf(ys), max_y |-> MaxOf(ys),
     min_z |-> MinOf(zs), max_z |-> MaxOf(zs)]

AllCorners(panels) ==
    {panels[i].corners[j] : i \in DOMAIN panels, j \in 1..4}

BoundsOfCorners(all_corners) ==
    Bounds({c.x : c \in all_corners}, {c.y : c \in all_corners},
           {c.z : c \in all_corners})

BoundsOfPanels(panels) ==
    IF panels = << >>
    THEN Bounds({R(0)}, {R(0)}, {R(0)})
    ELSE BoundsOfCorners(AllCorners(panels))

get_total_bounds(lay, created) ==
    LET r == get_panels(lay, created)
    IN  Returned(r.layout, r.heap, BoundsOfPanels(r.ret.items))

OptimalPosition(bounds) ==
    Point3D(RMul(bounds.max_x, Frac(-1, 2)), RMul(bounds.max_y, Frac(2, 5)),
            RMul(bounds.max_z, Frac(-1, 2)))

get_optimal_camera_position(lay, created) ==
    LET r == get_total_bounds(lay, created)
    IN  Returned(r.layout, r.heap, OptimalPosition(r.ret))

OptimalTarget(bounds) ==
    Point3D(RMul(bounds.max_x, Frac(4, 5)), RMul(bounds.max_y, Frac(3, 10)),
            RMul(bounds.max_z, Frac(4, 5)))

get_optimal_camera_target(lay, created) ==
    LET r == get_total_bounds(lay, created)
    IN  Returned(r.layout, r.heap, OptimalTarget(r.ret))

----------------------------------------------------------------------------
(* Bounds and input sets.                                                  *)

(* Recomputations of its matrices one camera may make (each allocates two *)
(* Matrix4x4 objects).                                                     *)
MaxUpdates == 2

Positions == {P3(2, 1, 6), P3(2, 1, 3)}
Targets   == {P3(2, 1, 0), P3(2, 1, 6)}
ValidFovs == {R(90), Frac(5313, 100)}
FovValues == ValidFovs \cup {Frac(1, 2), R(180)}
Aspects   == {R(2)}
Distances == {R(3), R(0)}
Orbits    == {<<90, 0>>}

Up == Vector3D(R(0), R(1), R(0))

(* near_plane and far_plane a caller may put in a CameraConfig: the        *)
(* defaults, and a pair with near = far.                                   *)
NearFar == {<<Frac(1, 10), R(100)>>, <<R(1), R(1)>>}

(* Placements and arguments for the positioning operations: the camera    *)
(* starts at target + offset.                                              *)
PlaceTargets   == {P3(0, 0, 0), P3(2, 1, 0)}
PlaceOffsets   == {P3(0, 0, 5), P3(5, 0, 0), P3(-5, 0, 0), P3(3, 0, 4),
                   P3(0, 3, 4), P3(0, 0, 0)}
PlaceDistances == {R(5), R(10), R(0), R(-1)}
PlaceOrbits    == {<<0, 0>>, <<90, 0>>, <<180, 0>>, <<0, 90>>}

(* Lists handed to get_grid_stats: at most MaxLines lines, each with a     *)
(* panel label and a line type (one of them not a known type).             *)
MaxLines == 3
StatLabels == {"Floor", "Left Wall"}
StatTypes  == LineTypes \cup {"diagonal"}
StatLines ==
    {GridLine(Point2D(R(0), R(0)), Point2D(R(1), R(1)), l, t) :
        l \in StatLabels, t \in StatTypes}
StatLists == UNION {[1..n -> StatLines] : n \in 0..MaxLines}

(* Panel and room dimensions a layout is constructed from.                 *)
DimValues == {R(-1), R(0), R(6), R(12)}

(* Valid room dimensions and units of the layouts whose panels are read,   *)
(* and the panel lists one layout may be made to build.                    *)
RoomSizes  == {R(8), R(12), Frac(5, 2)}
RoomUnits  == {"feet", "inches", "meters"}
PanelUnits == {"inches", "feet", "points"}
MaxLists   == 2

(* Panels and densities whose interior grid is generated: floors of       *)
(* width x depth, walls of extent x height along z and along x under each  *)
(* label, with corner 0 at `at`.                                           *)
FloorAt(at, width, depth) ==
    Panel("Floor",
          <<P3(at, 0, at), P3(at + width, 0, at),
            P3(at + width, 0, at + depth), P3(at, 0, at + depth)>>, "floor")
WallAlongZ(label, at, extent, height) ==
    Panel(label,
          <<P3(0, at, at), P3(0, at, at + extent),
            P3(0, at + height, at + extent), P3(0, at + height, at)>>, "wall")
WallAlongX(label, at, extent, height) ==
    Panel(label,
          <<P3(at, at, 0), P3(at + extent, at, 0),
            P3(at + extent, at + height, 0), P3(at, at + height, 0)>>, "wall")

PanelSizes == {<<5, 5>>, <<10, 2>>, <<4, 6>>}
PanelOrigins == {0, 1}
WallLabels == {"Left Wall", "Right Wall", "Back Wall"}
InteriorPanels ==
    {FloorAt(at, e[1], e[2]) : at \in PanelOrigins, e \in PanelSizes}
    \cup {WallAlongZ(l, at, e[1], e[2]) :
             l \in WallLabels, at \in PanelOrigins, e \in PanelSizes}
    \cup {WallAlongX(l, at, e[1], e[2]) :
             l \in WallLabels, at \in PanelOrigins, e \in PanelSizes}
InteriorDensities == {Frac(1, 10), Frac(1, 2), Frac(3, 10), R(1), R(5)}

(* Endpoint coordinates and viewport sizes handed to the clipper.          *)
ClipReach  == 3
ClipCoords == (-ClipReach)..(ClipReach + 2)
ClipSizes  == {<<2, 2>>, <<2, 1>>}

FloorPanel ==
    Panel("Floor", <<P3(0, 0, 0), P3(5, 0, 0), P3(5, 0, 5), P3(0, 0, 5)>>, "floor")
LeftWallPanel ==
    Panel("Left Wall", <<P3(0, 0, 0), P3(0, 0, 5), P3(0, 5, 5), P3(0, 5, 0)>>, "wall")
RightWallPanel ==
    Panel("Right Wall", <<P3(0, 0, 0), P3(5, 0, 0), P3(5, 5, 0), P3(0, 5, 0)>>, "wall")
(* A floor of zero width and a wall of zero height.                        *)
FlatFloorPanel ==
    Panel("Flat Floor", <<P3(1, 0, 0), P3(1, 0, 0), P3(1, 0, 5), P3(1, 0, 5)>>, "floor")
FlatWallPanel ==
    Panel("Flat Wall", <<P3(0, 2, 0), P3(5, 2, 0), P3(5, 2, 0), P3(0, 2, 0)>>, "wall")
(* A panel with three corners.                                             *)
BadPanel ==
    Panel("Bad", <<P3(0, 0, 0), P3(5, 0, 0), P3(5, 5, 0)>>, "wall")

(* The generate_grid calls made: [config, panels, screen size].            *)
GridCalls ==
    { <<GridConfig(Frac(1, 2), TRUE, R(0)), <<FloorPanel>>, <<8, 4>>>>,
      <<GridConfig(Frac(1, 5), TRUE, R(2)), <<FloorPanel, LeftWallPanel>>, <<4, 4>>>>,
      <<GridConfig(Frac(1, 5), FALSE, R(1)), <<RightWallPanel>>, <<8, 4>>>>,
      <<GridConfig(Frac(1, 5), TRUE, R(2)), <<FloorPanel, BadPanel, LeftWallPanel>>, <<4, 4>>>>,
      <<GridConfig(Frac(1, 5), TRUE, R(0)), <<FlatFloorPanel, RightWallPanel>>, <<8, 4>>>>,
      <<GridConfig(Frac(1, 5), TRUE, R(0)), <<FlatWallPanel>>, <<4, 4>>>>,
      <<GridConfig(Frac(1, 4), FALSE, R(3)), <<FloorPanel>>, <<4, 4>>>>,
      <<[GridConfig(Frac(1, 2), TRUE, R(0)) EXCEPT !.max_lines_per_panel = 5],
        <<FloorPanel>>, <<8, 4>>>> }

----------------------------------------------------------------------------
(* State: one Camera, the outcome of the last call made, what a caller     *)
(* holding on to returned matrices has observed, one layout object (None   *)
(* where no layout is under study) and the number of panel lists created.  *)

VARIABLES camera, result, view_seen, changed, layout, heap

vars == <<camera, result, view_seen, changed, layout, heap>>

Init ==
    /\ \E p \in Positions, t \in Targets, f \in ValidFovs :
          /\ ExactView(p, t, Up)
          /\ camera = Camera(CameraConfig(p, t, f))
    /\ result = [op |-> "init"]
    /\ view_seen = None
    /\ changed = FALSE
    /\ layout = None
    /\ heap = 0

SetPosition ==
    \E value \in Positions :
       /\ ExactView(value, camera.config.target, Up)
       /\ camera' = set_position(camera, value)
       /\ result' = [op |-> "set_position", error |-> FALSE, value |-> value]
       /\ changed' = TRUE
       /\ UNCHANGED <<view_seen, layout, heap>>

SetTarget ==
    \E value \in Targets :
       /\ ExactView(camera.config.position, value, Up)
       /\ camera' = set_target(camera, value)
       /\ result' = [op |-> "set_target", error |-> FALSE, value |-> value]
       /\ changed' = TRUE
       /\ UNCHANGED <<view_seen, layout, heap>>

SetFov ==
    \E value \in FovValues :
       \E r \in {set_fov_degrees(camera, value)} :
           /\ camera' = r.cam
           /\ result' = [op |-> "set_fov_degrees", error |-> r.error, value |-> value]
           /\ changed' = (changed \/ ~r.error)
           /\ UNCHANGED <<view_seen, layout, heap>>

SetDistanceToTarget ==
    \E distance \in Distances :
       \E r \in {set_distance_to_target(camera, distance)} :
           /\ camera' = r.cam
           /\ result' = [op |-> "set_distance_to_target", error |-> r.error,
                         value |-> distance]
           /\ changed' = (changed \/ ~r.error)
           /\ UNCHANGED <<view_seen, layout, heap>>

OrbitAroundTarget ==
    \E o \in Orbits, distance \in Distances :
       \E r \in {orbit_around_target(camera, o[1], o[2], distance)} :
           /\ camera' = r.cam
           /\ result' = [op |-> "orbit_around_target", error |-> r.error,
                         value |-> <<o[1], o[2], distance>>]
           /\ changed' = (changed \/ ~r.error)
           /\ UNCHANGED <<view_seen, layout, heap>>

GetViewMatrix ==
    \E r \in {get_view_matrix(camera)} :
        /\ r.cam.allocated <= 2 * MaxUpdates
        /\ camera' = r.cam
        /\ result' = [op |-> "get_view_matrix", error |-> FALSE, value |-> r.ret,
                      previous |-> view_seen, changed |-> changed]
        /\ view_seen' = r.ret
        /\ changed' = FALSE
        /\ UNCHANGED <<layout, heap>>

GetProjectionMatrix ==
    \E aspect_ratio \in Aspects :
       \E r \in {get_projection_matrix(camera, aspect_ratio)} :
           /\ r.cam.allocated <= 2 * MaxUpdates
           /\ camera' = r.cam
           /\ result' = [op |-> "get_projection_matrix", error |-> FALSE,
                         value |-> r.ret, aspect_ratio |-> aspect_ratio]
           /\ UNCHANGED <<view_seen, changed, layout, heap>>

GenerateGrid ==
    \E call \in GridCalls :
       \E config \in {call[1]}, panels \in {call[2]}, size \in {call[3]} :
       \E r \in {generate_grid(config, panels, camera, size[1], size[2])} :
           /\ r.cam.allocated <= 2 * MaxUpdates
           /\ camera' = r.cam
           /\ result' = [op |-> "generate_grid", error |-> FALSE, value |-> r.ret,
                         config |-> config, panels |-> panels,
                         screen_width |-> size[1], screen_height |-> size[2],
                         view_matrix |-> r.view_matrix,
                         projection_matrix |-> r.projection_matrix,
                         all_lines |-> r.all_lines]
           /\ UNCHANGED <<view_seen, changed, layout, heap>>

(* The camera's operations.                                                *)
Next ==
    \/ SetPosition
    \/ SetTarget
    \/ SetFov
    \/ SetDistanceToTarget
    \/ OrbitAroundTarget
    \/ GetViewMatrix
    \/ GetProjectionMatrix

Spec == Init /\ [][Next]_vars

(* Grid generation on a camera whose matrices may already have been read.  *)
NextGrid ==
    \/ GetViewMatrix
    \/ GetProjectionMatrix
    \/ GenerateGrid

SpecGrid == Init /\ [][NextGrid]_vars

TypeOK == camera.allocated \in 0..(2 * MaxUpdates)

(* The viewport clipper applied once to a drawn segment.                   *)
InitClip ==
    /\ camera = Camera(CameraConfig(P3(2, 1, 6), P3(2, 1, 0), R(90)))
    /\ \E x1 \in ClipCoords, y1 \in ClipCoords, x2 \in ClipCoords,
          y2 \in ClipCoords, size \in ClipSizes :
          result = [op |-> "segment", start |-> Point2D(R(x1), R(y1)),
                    end |-> Point2D(R(x2), R(y2)),
                    screen_width |-> size[1], screen_height |-> size[2]]
    /\ view_seen = None
    /\ changed = FALSE
    /\ layout = None
    /\ heap = 0

ClipLine ==
    /\ result.op = "segment"
    /\ \E r \in {ClipLoop(result.start.x, result.start.y, result.end.x,
                           result.end.y, result.screen_width,
                           result.screen_height, 0)} :
          result' = [op |-> "clip_line_to_viewport", start |-> result.start,
                     end |-> result.end, screen_width |-> result.screen_width,
                     screen_height |-> result.screen_height,
                     value |-> r.result, replacements |-> r.replacements,
                     zero_division |-> r.zero_division]
    /\ UNCHANGED <<camera, view_seen, changed, layout, heap>>

SpecClip == InitClip /\ [][ClipLine]_vars

(* get_grid_stats applied once to a list of lines.                         *)
InitStats ==
    /\ camera = Camera(CameraConfig(P3(2, 1, 6), P3(2, 1, 0), R(90)))
    /\ \E lines \in StatLists : result = [op |-> "lines", lines |-> lines]
    /\ view_seen = None
    /\ changed = FALSE
    /\ layout = None
    /\ heap = 0

GetGridStats ==
    /\ result.op = "lines"
    /\ result' = [op |-> "get_grid_stats", lines |-> result.lines,
                  value |-> get_grid_stats(result.lines)]
    /\ UNCHANGED <<camera, view_seen, changed, layout, heap>>

SpecStats == InitStats /\ [][GetGridStats]_vars

(* A layout constructed once from a configuration.                         *)
InitLayout ==
    /\ camera = Camera(CameraConfig(P3(2, 1, 6), P3(2, 1, 0), R(90)))
    /\ \E pw \in DimValues, ph \in DimValues, rw \in DimValues,
          rh \in DimValues, rd \in DimValues :
          result = [op |-> "config",
                    config |-> LayoutConfig(PanelDimensions(pw, ph),
                                            RoomDimensions(rw, rh, rd), "3panel")]
    /\ view_seen = None
    /\ changed = FALSE
    /\ layout = None
    /\ heap = 0

ConstructLayout ==
    /\ result.op = "config"
    /\ result' = [op |-> "ThreePanelLayout", config |-> result.config,
                  value |-> ThreePanelLayout(result.config)]
    /\ UNCHANGED <<camera, view_seen, changed, layout, heap>>

SpecLayout == InitLayout /\ [][ConstructLayout]_vars

(* A valid layout, freshly constructed, whose panels, panel count and     *)
(* camera suggestions are read.                                            *)
InitPanels ==
    /\ camera = Camera(CameraConfig(P3(2, 1, 6), P3(2, 1, 0), R(90)))
    /\ result = [op |-> "init"]
    /\ view_seen = None
    /\ changed = FALSE
    /\ \E rw \in RoomSizes, rh \in RoomSizes, rd \in RoomSizes,
          ru \in RoomUnits, pu \in PanelUnits :
          layout = ThreePanelLayout(LayoutConfig(
                      [PanelDimensions(R(6), R(6)) EXCEPT !.units = pu],
                      [RoomDimensions(rw, rh, rd) EXCEPT !.units = ru],
                      "3panel"))
    /\ heap = 0

GetPanels ==
    \E r \in {get_panels(layout, heap)} :
        /\ r.heap <= MaxLists
        /\ layout' = r.layout
        /\ heap' = r.heap
        /\ result' = [op |-> "get_panels", value |-> r.ret,
                      cached |-> layout.panels]
        /\ UNCHANGED <<camera, view_seen, changed>>

GetPanelCount ==
    /\ result' = [op |-> "get_panel_count", value |-> get_panel_count(layout)]
    /\ UNCHANGED <<camera, view_seen, changed, layout, heap>>

GetOptimalCameraPosition ==
    \E r \in {get_optimal_camera_position(layout, heap)} :
        /\ r.heap <= MaxLists
        /\ layout' = r.layout
        /\ heap' = r.heap
        /\ result' = [op |-> "get_optimal_camera_position", value |-> r.ret]
        /\ UNCHANGED <<camera, view_seen, changed>>

GetOptimalCameraTarget ==
    \E r \in {get_optimal_camera_target(layout, heap)} :
        /\ r.heap <= MaxLists
        /\ layout' = r.layout
        /\ heap' = r.heap
        /\ result' = [op |-> "get_optimal_camera_target", value |-> r.ret]
        /\ UNCHANGED <<camera, view_seen, changed>>

NextPanels ==
    \/ GetPanels
    \/ GetPanelCount
    \/ GetOptimalCameraPosition
    \/ GetOptimalCameraTarget

SpecPanels == InitPanels /\ [][NextPanels]_vars

(* The interior grid of one panel generated once, before projection.       *)
InitInterior ==
    /\ camera = Camera(CameraConfig(P3(2, 1, 6), P3(2, 1, 0), R(90)))
    /\ \E panel \in InteriorPanels, density \in InteriorDensities :
          result = [op |-> "panel", panel |-> panel,
                    config |-> GridConfig(density, TRUE, R(0))]
    /\ view_seen = None
    /\ changed = FALSE
    /\ layout = None
    /\ heap = 0

GenerateInteriorGrid ==
    /\ result.op = "panel"
    /\ result' = [op |-> "generate_interior_grid", panel |-> result.panel,
                  config |-> result.config,
                  spacings |-> GridSpacings(result.config, result.panel),
                  lines |-> InteriorGrid3D(result.config, result.panel)]
    /\ UNCHANGED <<camera, view_seen, changed, layout, heap>>

SpecInterior == InitInterior /\ [][GenerateInteriorGrid]_vars

(* A camera constructed from any CameraConfig (the constructor stores the  *)
(* configuration as given), then moved and reconfigured.                   *)
InitAny ==
    /\ \E f \in FovValues, nf \in NearFar :
          camera = Camera([CameraConfig(P3(2, 1, 6), P3(2, 1, 0), f)
                              EXCEPT !.near_plane = nf[1], !.far_plane = nf[2]])
    /\ result = [op |-> "init"]
    /\ view_seen = None
    /\ changed = FALSE
    /\ layout = None
    /\ heap = 0

NextAny ==
    \/ SetPosition
    \/ SetTarget
    \/ SetFov
    \/ SetDistanceToTarget
    \/ OrbitAroundTarget

SpecAny == InitAny /\ [][NextAny]_vars

(* Positioning a camera placed anywhere around its target, and reading     *)
(* its view matrix.                                                        *)
InitPlace ==
    /\ \E t \in PlaceTargets, o \in PlaceOffsets :
          camera = Camera(CameraConfig(
                      Point3D(RAdd(t.x, o.x), RAdd(t.y, o.y), RAdd(t.z, o.z)),
                      t, R(90)))
    /\ result = [op |-> "init"]
    /\ view_seen = None
    /\ changed = FALSE
    /\ layout = None
    /\ heap = 0

PlaceAtDistance ==
    \E distance \in PlaceDistances :
       \E r \in {set_distance_to_target(camera, distance)} :
           /\ camera' = r.cam
           /\ result' = [op |-> "set_distance_to_target", error |-> r.error,
                         value |-> distance]
           /\ changed' = (changed \/ ~r.error)
           /\ UNCHANGED <<view_seen, layout, heap>>

PlaceInOrbit ==
    \E o \in PlaceOrbits, distance \in PlaceDistances :
       \E r \in {orbit_around_target(camera, o[1], o[2], distance)} :
           /\ camera' = r.cam
           /\ result' = [op |-> "orbit_around_target", error |-> r.error,
                         value |-> <<o[1], o[2], distance>>]
           /\ changed' = (changed \/ ~r.error)
           /\ UNCHANGED <<view_seen, layout, heap>>

NextPlace ==
    \/ PlaceAtDistance
    \/ PlaceInOrbit
    \/ GetViewMatrix

SpecPlace == InitPlace /\ [][NextPlace]_vars

----------------------------------------------------------------------------
(* The expanded viewport [-m, W+m] x [-m, H+m], m = max(W,H)/2, stated on  *)
(* its own.                                                                *)

IMax(a, b) == IF a >= b THEN a ELSE b
VpLo(w, h)  == Frac(-IMax(w, h), 2)
VpXHi(w, h) == Frac(2 * w + IMax(w, h), 2)
VpYHi(w, h) == Frac(2 * h + IMax(w, h), 2)

InViewport(p, w, h) ==
    /\ RLe(VpLo(w, h), p.x) /\ RLe(p.x, VpXHi(w, h))
    /\ RLe(VpLo(w, h), p.y) /\ RLe(p.y, VpYHi(w, h))

(* Both endpoints beyond one and the same side of the viewport.            *)
SameSideOut(a, b, w, h) ==
    \/ RLt(a.x, VpLo(w, h)) /\ RLt(b.x, VpLo(w, h))
    \/ RLt(VpXHi(w, h), a.x) /\ RLt(VpXHi(w, h), b.x)
    \/ RLt(a.y, VpLo(w, h)) /\ RLt(b.y, VpLo(w, h))
    \/ RLt(VpYHi(w, h), a.y) /\ RLt(VpYHi(w, h), b.y)

(* Which side of the line through a and b the point (cx, cy) lies on.      *)
SideOf(a, b, cx, cy) ==
    RSub(RMul(RSub(b.x, a.x), RSub(cy, a.y)), RMul(RSub(b.y, a.y), RSub(cx, a.x)))

(* The segment a-b has a point in the viewport: no axis separates them,    *)
(* and the viewport's corners are not all strictly on one side of the line.*)
MeetsViewport(a, b, w, h) ==
    LET s1 == SideOf(a, b, VpLo(w, h), VpLo(w, h))
        s2 == SideOf(a, b, VpXHi(w, h), VpLo(w, h))
        s3 == SideOf(a, b, VpXHi(w, h), VpYHi(w, h))
        s4 == SideOf(a, b, VpLo(w, h), VpYHi(w, h))
    IN  /\ ~SameSideOut(a, b, w, h)
        /\ ~(s1[1] > 0 /\ s2[1] > 0 /\ s3[1] > 0 /\ s4[1] > 0)
        /\ ~(s1[1] < 0 /\ s2[1] < 0 /\ s3[1] < 0 /\ s4[1] < 0)

(* C6: a segment with both endpoints inside the expanded viewport is      *)
(* returned with the same endpoints; a segment with no point inside the    *)
(* expanded viewport is clipped to None.                                   *)
C6_ClipInsideAndOutside ==
    result.op = "clip_line_to_viewport" =>
       /\ (InViewport(result.start, result.screen_width, result.screen_height)
           /\ InViewport(result.end, result.screen_width, result.screen_height))
          => result.value = [start |-> result.start, end |-> result.end]
       /\ ~MeetsViewport(result.start, result.end,
                         result.screen_width, result.screen_height)
          => result.value = None

(* A segment that passes a corner of the viewport without touching it,     *)
(* its endpoints beyond different sides, has been rejected.                *)
C6_Witness ==
    /\ result.op = "clip_line_to_viewport"
    /\ ~MeetsViewport(result.start, result.end,
                      result.screen_width, result.screen_height)
    /\ ~SameSideOut(result.start, result.end,
                    result.screen_width, result.screen_height)
    /\ result.value = None

(* C24: the clipping loop ends in accept or reject after at most 4         *)
(* endpoint replacements and never divides by zero (an intersection with   *)
(* a horizontal boundary is taken between endpoints of different y, one    *)
(* with a vertical boundary between endpoints of different x).             *)
C24_ClipTerminatesWithoutZeroDivision ==
    result.op = "clip_line_to_viewport" =>
       /\ result.replacements \in 0..4
       /\ ~result.zero_division
       /\ result.value # None =>
             /\ result.value.start.x[2] > 0 /\ result.value.start.y[2] > 0
             /\ result.value.end.x[2] > 0 /\ result.value.end.y[2] > 0

(* A segment accepted after both endpoints were replaced twice.            *)
C24_Witness ==
    /\ result.op = "clip_line_to_viewport"
    /\ result.replacements = 4
    /\ result.value # None

(* p = a + t (b - a) for some t, and the products t |b - a|^2 compared.    *)
Along(p, a, b) ==
    RAdd(RMul(RSub(p.x, a.x), RSub(b.x, a.x)), RMul(RSub(p.y, a.y), RSub(b.y, a.y)))

OnSegment(p, a, b) ==
    /\ SideOf(a, b, p.x, p.y) = R(0)
    /\ RLe(R(0), Along(p, a, b))
    /\ RLe(Along(p, a, b), Along(b, a, b))
    /\ a = b => p = a

(* C25: a returned segment has both endpoints inside the expanded viewport *)
(* and on the original segment, in the original start-to-end orientation;  *)
(* an endpoint that was already inside is returned unchanged.              *)
C25_ClippedSegmentOnOriginal ==
    (result.op = "clip_line_to_viewport" /\ result.value # None) =>
       /\ InViewport(result.value.start, result.screen_width, result.screen_height)
       /\ InViewport(result.value.end, result.screen_width, result.screen_height)
       /\ OnSegment(result.value.start, result.start, result.end)
       /\ OnSegment(result.value.end, result.start, result.end)
       /\ RLe(Along(result.value.start, result.start, result.end),
              Along(result.value.end, result.start, result.end))
       /\ InViewport(result.start, result.screen_width, result.screen_height)
             => result.value.start = result.start
       /\ InViewport(result.end, result.screen_width, result.screen_height)
             => result.value.end = result.end

(* A segment entering the viewport: its outside start was moved, its       *)
(* inside end was kept.                                                    *)
C25_Witness ==
    /\ result.op = "clip_line_to_viewport"
    /\ result.value # None
    /\ ~InViewport(result.start, result.screen_width, result.screen_height)
    /\ InViewport(result.end, result.screen_width, result.screen_height)
    /\ result.value.start # result.start
    /\ result.value.end = result.end
    /\ result.value.start.x[2] > 1

----------------------------------------------------------------------------
(* Claims about generate_grid, checked under SpecGrid.                     *)

LineLengthSq(line) ==
    LET dx == RSub(line.end.x, line.start.x)
        dy == RSub(line.end.y, line.start.y)
    IN  RAdd(RMul(dx, dx), RMul(dy, dy))

(* C1: get_projection_matrix(a) returns the perspective matrix of the     *)
(* camera's current fov/near/far and the aspect ratio a of that call, and  *)
(* generate_grid(panels, camera, W, H) projects with aspect ratio W/H.     *)
C1_ProjectionUsesCallAspect ==
    /\ result.op = "get_projection_matrix" =>
          result.value.m = perspective(camera.config.fov_degrees,
                                       result.aspect_ratio,
                                       camera.config.near_plane,
                                       camera.config.far_plane)
    /\ result.op = "generate_grid" =>
          result.projection_matrix.m =
             perspective(camera.config.fov_degrees,
                         Frac(result.screen_width, result.screen_height),
                         camera.config.near_plane, camera.config.far_plane)

(* C2: every GridLine returned by generate_grid has both endpoints inside *)
(* the viewport expanded by 0.5*max(W,H) on every side.                    *)
C2_AllLinesInExpandedViewport ==
    result.op = "generate_grid" =>
       \A i \in 1..Len(result.value) :
          /\ InViewport(result.value[i].start, result.screen_width,
                        result.screen_height)
          /\ InViewport(result.value[i].end, result.screen_width,
                        result.screen_height)

(* C3: every GridLine returned by generate_grid has pixel length at least *)
(* config.min_line_length.                                                 *)
C3_MinLineLength ==
    result.op = "generate_grid" =>
       \A i \in 1..Len(result.value) :
          RLe(RMul(result.config.min_line_length, result.config.min_line_length),
              LineLengthSq(result.value[i]))

(* A call with a positive minimum length that discarded some generated    *)
(* lines and returned others.                                              *)
C3_Witness ==
    /\ result.op = "generate_grid"
    /\ RLt(R(0), result.config.min_line_length)
    /\ Len(result.value) > 0
    /\ Len(result.value) < Len(result.all_lines)

(* A 4-corner panel whose computed in-plane width or height is zero.       *)
ZeroExtent(q) ==
    /\ Len(q.corners) = 4
    /\ IF q.panel_type = "floor"
       THEN \/ q.corners[2].x = q.corners[1].x
            \/ q.corners[4].z = q.corners[1].z
       ELSE IF q.label = "Left Wall"
       THEN \/ q.corners[2].z = q.corners[1].z
            \/ q.corners[4].y = q.corners[1].y
       ELSE \/ q.corners[2].x = q.corners[1].x
            \/ q.corners[4].y = q.corners[1].y

(* C4: generate_grid returns no GridLine, interior or boundary, carrying   *)
(* the label of a 4-corner panel whose in-plane width or height is zero.   *)
C4_ZeroExtentPanelSkipped ==
    result.op = "generate_grid" =>
       \A k \in 1..Len(result.panels) :
          ZeroExtent(result.panels[k]) =>
             \A i \in 1..Len(result.value) :
                result.value[i].panel_label # result.panels[k].label

FourCorners(q) == Len(q.corners) = 4

(* The panel list without its malformed panels.                            *)
WellFormed(panels) ==
    LET F[i \in 0..Len(panels)] ==
          IF i = 0 THEN << >>
          ELSE IF FourCorners(panels[i]) THEN Append(F[i - 1], panels[i])
          ELSE F[i - 1]
    IN  F[Len(panels)]

(* C5: a panel whose corner count is not 4 contributes no line, and the    *)
(* call returns exactly the lines it returns for the list without the      *)
(* malformed panels.                                                       *)
C5_MalformedPanelIgnored ==
    [][result'.op = "generate_grid" =>
          /\ \A k \in 1..Len(result'.panels) :
                ~FourCorners(result'.panels[k]) =>
                   \A i \in 1..Len(result'.value) :
                      result'.value[i].panel_label # result'.panels[k].label
          /\ result'.value =
                generate_grid(result'.config,
                              WellFormed(result'.panels), camera,
                              result'.screen_width, result'.screen_height).ret]_vars

(* A call whose panel list held a malformed panel between two well-formed  *)
(* ones and that returned lines.                                           *)
C5_Witness ==
    /\ result.op = "generate_grid"
    /\ \E k \in 2..(Len(result.panels) - 1) : ~FourCorners(result.panels[k])
    /\ Len(result.value) > 0

(* C7: generate_grid returns the list a newly constructed camera with the  *)
(* same configuration returns, whatever matrix reads came before.          *)
C7_GridIndependentOfHistory ==
    [][result'.op = "generate_grid" =>
          result'.value =
             generate_grid(result'.config, result'.panels, Camera(camera.config),
                           result'.screen_width, result'.screen_height).ret]_vars

----------------------------------------------------------------------------
(* Claims about the camera's cached matrices and setters, checked under    *)
(* Spec.                                                                   *)

(* C8: get_view_matrix returns look_at of the current position, target    *)
(* and up vector, and the projection returned is one built from the        *)
(* current fov, after any sequence of mutations and reads.                 *)
C8_MatricesFromCurrentFields ==
    /\ result.op = "get_view_matrix" =>
          result.value.m = look_at(camera.config.position, camera.config.target,
                                   camera.config.up_vector)
    /\ result.op = "get_projection_matrix" =>
          \E a \in Aspects \cup {R(1)} :
             result.value.m = perspective(camera.config.fov_degrees, a,
                                          camera.config.near_plane,
                                          camera.config.far_plane)

(* A view matrix read after a mutation that differs from the matrix read   *)
(* before the mutation.                                                    *)
C8_Witness ==
    /\ result.op = "get_view_matrix"
    /\ result.previous # None
    /\ result.changed
    /\ result.value.m # result.previous.m

(* C9: get_view_matrix returns the object it returned last time when no    *)
(* mutation came in between, and a new object after a position, target or  *)
(* fov change.                                                             *)
C9_ViewMatrixCaching ==
    (result.op = "get_view_matrix" /\ result.previous # None) =>
       IF result.changed
       THEN result.value.id # result.previous.id
       ELSE result.value = result.previous

(* After a change that leaves the view matrix's entries as they were, the  *)
(* object returned is nevertheless a new one.                              *)
C9_Witness ==
    /\ result.op = "get_view_matrix"
    /\ result.previous # None
    /\ result.changed
    /\ result.value.m = result.previous.m
    /\ result.value.id # result.previous.id

FovInRange(v) == v[2] > 0 /\ v[1] >= v[2] /\ v[1] <= 179 * v[2]

(* C10: setting fov_degrees outside [1,179] raises and leaves the camera,  *)
(* its cached matrices and its stale flag as they were; a value inside the *)
(* range is stored and read back.                                          *)
C10_FovSetterValidates ==
    [][result'.op = "set_fov_degrees" =>
          IF FovInRange(result'.value)
          THEN ~result'.error /\ fov_degrees(camera') = result'.value
          ELSE result'.error /\ camera' = camera]_vars

(* A rejected fov on a camera whose matrices are cached and current.       *)
C10_Witness ==
    /\ result.op = "set_fov_degrees"
    /\ result.error
    /\ camera.view_matrix # None
    /\ ~camera.needs_update

----------------------------------------------------------------------------
(* Claims about positioning the camera, checked under SpecPlace.           *)

(* position - target                                                       *)
Offset(c) ==
    Vector3D(RSub(c.config.position.x, c.config.target.x),
             RSub(c.config.position.y, c.config.target.y),
             RSub(c.config.position.z, c.config.target.z))

ZeroVector == Vector3D(R(0), R(0), R(0))

(* C11: set_distance_to_target(d) with d <= 0 or with position = target,   *)
(* and orbit_around_target with distance <= 0, fail and leave position,    *)
(* target, fov and the stale flag as they were.                            *)
C11_FailedMoveLeavesCamera ==
    [][/\ (/\ result'.op = "set_distance_to_target"
           /\ (result'.value[1] <= 0 \/ camera.config.position = camera.config.target))
          => /\ result'.error
             /\ camera'.config = camera.config
             /\ camera'.needs_update = camera.needs_update
       /\ (result'.op = "orbit_around_target" /\ result'.value[3][1] <= 0)
          => /\ result'.error
             /\ camera'.config = camera.config
             /\ camera'.needs_update = camera.needs_update]_vars

(* A positive distance refused because the camera sits on its target,      *)
(* on a camera whose matrices are cached and current.                      *)
C11_Witness ==
    /\ result.op = "set_distance_to_target"
    /\ result.error
    /\ result.value[1] > 0
    /\ camera.config.position = camera.config.target
    /\ camera.view_matrix # None
    /\ ~camera.needs_update

(* C13: set_distance_to_target(d), d > 0 and position # target, keeps the  *)
(* target, puts the camera at distance d and on the same ray from the      *)
(* target as before.                                                       *)
C13_SetDistanceKeepsDirection ==
    [][(/\ result'.op = "set_distance_to_target"
        /\ result'.value[1] > 0
        /\ camera.config.position # camera.config.target)
       => /\ ~result'.error
          /\ camera'.config.target = camera.config.target
          /\ get_distance_to_target(camera') = result'.value
          /\ LengthSq(Offset(camera')) = RMul(result'.value, result'.value)
          /\ cross(Offset(camera'), Offset(camera)) = ZeroVector
          /\ RLt(R(0), dot(Offset(camera'), Offset(camera)))]_vars

(* A camera moved out to distance 10 along a ray that is not an axis.      *)
C13_Witness ==
    /\ result.op = "set_distance_to_target"
    /\ ~result.error
    /\ result.value = R(10)
    /\ Offset(camera).x[1] # 0
    /\ Offset(camera).z[1] # 0
    /\ get_distance_to_target(camera) = R(10)

C15_OrbitNinetyOnXAxis ==
    (/\ result.op = "orbit_around_target"
     /\ ~result.error
     /\ result.value[1] = 90 /\ result.value[2] = 0
     /\ camera.config.target = P3(0, 0, 0))
    => /\ camera.config.position = Point3D(result.value[3], R(0), R(0))
       /\ get_distance_to_target(camera) = result.value[3]

(* C16: for eye # target and up not parallel to the viewing direction, the *)
(* view matrix maps the target to (0, 0, -|target - eye|).                 *)
C16_TargetInFront ==
    (/\ result.op = "get_view_matrix"
     /\ camera.config.position # camera.config.target
     /\ cross(Offset(camera), camera.config.up_vector) # ZeroVector)
    => transform_point(result.value.m, camera.config.target) =
          Point3D(R(0), R(0), RNeg(get_distance_to_target(camera)))

----------------------------------------------------------------------------
(* Claims about the configuration a camera can hold, checked under SpecAny.*)

(* C12: in every reachable camera state fov_degrees lies in (1, 179) and   *)
(* 0 < near_plane < far_plane.                                             *)
C12_ConfigInRange ==
    /\ RLt(R(1), camera.config.fov_degrees)
    /\ RLt(camera.config.fov_degrees, R(179))
    /\ RLt(R(0), camera.config.near_plane)
    /\ RLt(camera.config.near_plane, camera.config.far_plane)

----------------------------------------------------------------------------
(* Claims about the number of lines generated, checked under SpecGrid.     *)

(* Densities a generator configuration is compared at.                     *)
Densities == {Frac(1, 5), Frac(1, 4), Frac(3, 10), Frac(1, 2), R(1)}

----------------------------------------------------------------------------
(* Claims about the order and number of the lines, checked under SpecGrid. *)

(* The position of the panel labelled `label` in the panel list, and the   *)
(* place of a line type within one panel's lines.                          *)
PanelIndex(panels, label) == CHOOSE k \in DOMAIN panels : panels[k].label = label

TypeRank(line_type) ==
    IF line_type = "boundary" THEN 0 ELSE IF line_type = "horizontal" THEN 1 ELSE 2

InPanelOrder(lines, panels) ==
    \A i \in DOMAIN lines : \A j \in DOMAIN lines :
       i < j =>
          /\ PanelIndex(panels, lines[i].panel_label)
                <= PanelIndex(panels, lines[j].panel_label)
          /\ lines[i].panel_label = lines[j].panel_label =>
                TypeRank(lines[i].line_type) <= TypeRank(lines[j].line_type)

(* The boundary lines of panel q, edge by edge: corners 0-1, 1-2, 2-3, 3-0.*)
EdgesInOrder(q, view_matrix, projection_matrix, screen_width, screen_height) ==
    Flatten([e \in 1..4 |->
        BoundaryEdge(q.corners[e], q.corners[IF e = 4 THEN 1 ELSE e + 1], q,
                     view_matrix, projection_matrix, screen_width, screen_height)])

BoundaryOf(lines, label) ==
    LET Is(l) == l.panel_label = label /\ l.line_type = "boundary"
    IN  SelectSeq(lines, Is)

KeptLines(lines, min_line_length) ==
    LET Kept(l) == RLe(RMul(min_line_length, min_line_length), LineLengthSq(l))
    IN  SelectSeq(lines, Kept)

(* C28: generate_grid keeps the input order: the lines of an earlier panel *)
(* come before those of a later one; within a panel the boundary lines     *)
(* (corner pairs 0-1, 1-2, 2-3, 3-0) come first, then the horizontal,      *)
(* then the vertical lines; the length filter removes lines without        *)
(* reordering the others.                                                  *)
C28_LinesInInputOrder ==
    result.op = "generate_grid" =>
       /\ InPanelOrder(result.all_lines, result.panels)
       /\ InPanelOrder(result.value, result.panels)
       /\ result.value = KeptLines(result.all_lines, result.config.min_line_length)
       /\ \A k \in DOMAIN result.panels :
             (result.config.show_panel_boundaries /\ FourCorners(result.panels[k])) =>
                BoundaryOf(result.all_lines, result.panels[k].label)
                   = EdgesInOrder(result.panels[k], result.view_matrix.m,
                                  result.projection_matrix.m,
                                  result.screen_width, result.screen_height)

(* A call on several panels that returned boundary, horizontal and         *)
(* vertical lines of two panels after the filter removed others.           *)
C28_Witness ==
    /\ result.op = "generate_grid"
    /\ Len(result.value) < Len(result.all_lines)
    /\ \E i \in DOMAIN result.value : \E j \in DOMAIN result.value :
          /\ result.value[i].panel_label # result.value[j].panel_label
          /\ result.value[i].line_type = "boundary"
          /\ result.value[j].line_type = "boundary"
    /\ \E i \in DOMAIN result.value : result.value[i].line_type = "horizontal"
    /\ \E i \in DOMAIN result.value : result.value[i].line_type = "vertical"

LinesOfPanel(lines, label) ==
    LET Is(l) == l.panel_label = label IN SelectSeq(lines, Is)

(* C29: the number of returned GridLines carrying one panel's label never  *)
(* exceeds config.max_lines_per_panel.                                     *)
C29_MaxLinesPerPanel ==
    result.op = "generate_grid" =>
       \A k \in DOMAIN result.panels :
          Len(LinesOfPanel(result.value, result.panels[k].label))
             <= result.config.max_lines_per_panel

----------------------------------------------------------------------------
(* Claims about get_grid_stats, checked under SpecStats.                   *)

(* The sum of a dict's values.                                             *)
RECURSIVE SumOver(_, _)
SumOver(d, keys) ==
    IF keys = {} THEN 0
    ELSE LET k == CHOOSE k \in keys : TRUE
         IN  d[k] + SumOver(d, keys \ {k})

SumValues(d) == SumOver(d, DOMAIN d)

KnownTypes(lines) == \A i \in 1..Len(lines) : lines[i].line_type \in LineTypes

(* C18: for every list of lines of the three known types, total_lines,     *)
(* the length of the list, the sum of the per-panel counts and the sum of  *)
(* the per-type counts are equal.                                          *)
C18_StatsTotalsAgree ==
    (result.op = "get_grid_stats" /\ KnownTypes(result.lines)) =>
       /\ "total_lines" \in DOMAIN result.value
       /\ result.value.total_lines = Len(result.lines)
       /\ "panels" \in DOMAIN result.value
       /\ SumValues(result.value.panels) = Len(result.lines)
       /\ "line_types" \in DOMAIN result.value
       /\ SumValues(result.value.line_types) = Len(result.lines)

(* C19: for every list, the empty one included, the statistics hold        *)
(* total_lines, panels and line_types, the last with an entry for each of  *)
(* horizontal, vertical and boundary.                                      *)
C19_StatsHaveAllKeys ==
    (result.op = "get_grid_stats" /\ KnownTypes(result.lines)) =>
       /\ {"total_lines", "panels", "line_types"} \subseteq DOMAIN result.value
       /\ DOMAIN result.value.line_types = LineTypes

----------------------------------------------------------------------------
(* Claims about layout construction, checked under SpecLayout.             *)

Positive(v) == v[1] > 0 /\ v[2] > 0

AllDimensionsPositive(config) ==
    /\ Positive(config.panel_dimensions.width)
    /\ Positive(config.panel_dimensions.height)
    /\ Positive(config.room_dimensions.width)
    /\ Positive(config.room_dimensions.height)
    /\ Positive(config.room_dimensions.depth)

(* C20: constructing a layout succeeds exactly when panel width, panel     *)
(* height, room width, room height and room depth are all strictly         *)
(* positive; otherwise it fails and yields no layout object.               *)
C20_LayoutNeedsPositiveDimensions ==
    result.op = "ThreePanelLayout" =>
       IF AllDimensionsPositive(result.config)
       THEN /\ ~result.value.error
            /\ result.value.config.panel_dimensions = result.config.panel_dimensions
            /\ result.value.config.room_dimensions = result.config.room_dimensions
       ELSE /\ result.value.error
            /\ "config" \notin DOMAIN result.value

(* A construction refused for a zero room depth alone.                     *)
C20_Witness ==
    /\ result.op = "ThreePanelLayout"
    /\ result.value.error
    /\ Positive(result.config.panel_dimensions.width)
    /\ Positive(result.config.panel_dimensions.height)
    /\ Positive(result.config.room_dimensions.width)
    /\ Positive(result.config.room_dimensions.height)
    /\ result.config.room_dimensions.depth = R(0)

----------------------------------------------------------------------------
(* Claims about the panels of a valid layout, checked under SpecPanels.    *)

Origin == Point3D(R(0), R(0), R(0))

PanelLabels(items) == [i \in DOMAIN items |-> items[i].label]

(* C21: every get_panels() call on a valid ThreePanelLayout returns the    *)
(* one cached list object, built once by the first call, holding exactly   *)
(* the panels Floor, Left Wall, Right Wall in that order, and              *)
(* get_panel_count() is the length of that list.                           *)
C21_PanelsCachedAndOrdered ==
    /\ [](/\ heap <= 1
          /\ layout.panels # None => layout.panels.id = 1
          /\ result.op = "get_panels" =>
                /\ result.value = layout.panels
                /\ result.cached # None => result.value = result.cached
                /\ PanelLabels(result.value.items)
                      = <<"Floor", "Left Wall", "Right Wall">>
          /\ result.op = "get_panel_count" =>
                result.value = Len(create_panels(layout.config)))
    /\ [][layout.panels # None => layout'.panels = layout.panels]_vars

(* A get_panels() call made when the list had already been built.         *)
C21_Witness ==
    /\ result.op = "get_panels"
    /\ result.cached # None
    /\ heap = 1
    /\ layout.panels.id = 1
    /\ Len(result.value.items) = 3

NonNegative(p) == p.x[1] >= 0 /\ p.y[1] >= 0 /\ p.z[1] >= 0

PanelOnPlanes(items) ==
    /\ Len(items) = 3
    /\ \A i \in 1..3 :
          /\ Len(items[i].corners) = 4
          /\ items[i].corners[1] = Origin
          /\ \A j \in 1..4 : NonNegative(items[i].corners[j])
    /\ \A j \in 1..4 : items[1].corners[j].y = R(0)
    /\ \A j \in 1..4 : items[2].corners[j].x = R(0)
    /\ \A j \in 1..4 : items[3].corners[j].z = R(0)
    /\ items[1].panel_type = "floor"
    /\ items[2].panel_type = "wall"
    /\ items[3].panel_type = "wall"

(* C22: for every valid room and panel configuration each of the three     *)
(* panels has 4 corners with coordinates >= 0 and corner 0 at the origin;  *)
(* Floor corners have y = 0, Left Wall corners x = 0, Right Wall corners   *)
(* z = 0; the Floor is of type floor and both walls are of type wall.      *)
C22_PanelGeometry ==
    result.op = "get_panels" => PanelOnPlanes(result.value.items)

(* The panels of a room measured in meters with panels measured in feet.   *)
C22_Witness ==
    /\ result.op = "get_panels"
    /\ layout.config.room_dimensions.units = "meters"
    /\ layout.config.panel_dimensions.units = "feet"
    /\ result.value.items[2].corners[3].z # result.value.items[2].corners[3].y

(* C23: get_optimal_camera_position() returns a point with x, y and z all  *)
(* strictly positive, and get_optimal_camera_target() a point with all     *)
(* coordinates >= 0.                                                       *)
C23_OptimalCameraInRoom ==
    /\ result.op = "get_optimal_camera_position" =>
          /\ result.value.x[1] > 0
          /\ result.value.y[1] > 0
          /\ result.value.z[1] > 0
    /\ result.op = "get_optimal_camera_target" => NonNegative(result.value)

----------------------------------------------------------------------------
(* Claims about the interior grid of a panel, checked under SpecInterior.  *)

(* The coordinate along which a panel edge runs, and the edge's length.    *)
EdgeAxis(a, b) ==
    IF a.x # b.x THEN "x" ELSE IF a.y # b.y THEN "y" ELSE "z"

Coord(p, axis) == IF axis = "x" THEN p.x ELSE IF axis = "y" THEN p.y ELSE p.z

EdgeLength(a, b) == RAbs(RSub(Coord(b, EdgeAxis(a, b)), Coord(a, EdgeAxis(a, b))))

(* The panel's label agrees with its geometry: a Left Wall runs along z,   *)
(* any other wall along x, a floor along x and z.                          *)
Conventional(panel) ==
    IF panel.panel_type = "floor" THEN TRUE
    ELSE EdgeAxis(panel.corners[1], panel.corners[2])
            = (IF panel.label = "Left Wall" THEN "z" ELSE "x")

LinesOfType(lines, line_type) ==
    LET Is(l) == l.line_type = line_type IN SelectSeq(lines, Is)

(* Lines cross the second axis (corner 0 to 3) when they run parallel to   *)
(* the first: on a floor and on a wall these are the horizontal ones.      *)
OffsetsAlong(lines, line_type, from, axis) ==
    [i \in 1..Len(LinesOfType(lines, line_type)) |->
        RSub(Coord(LinesOfType(lines, line_type)[i].start, axis), Coord(from, axis))]

(* The multiples i * spacing, i = 1, 2, ..., strictly below extent.        *)
MultiplesBelow(spacing, extent) ==
    LET top == RInt(RDiv(extent, spacing))
        k   == Cardinality({i \in 1..top : RLt(RMul(R(i), spacing), extent)})
    IN  [i \in 1..k |-> RMul(R(i), spacing)]

(* C26: for a panel with positive in-plane extents and a density > 0 the   *)
(* spacing used along each in-plane axis is strictly positive and at most  *)
(* half of that axis's extent, so each axis has at least one interior      *)
(* line; for walls and for floors whose width and depth differ.            *)
C26_SpacingAtMostHalfExtent ==
    (result.op = "generate_interior_grid" /\ Conventional(result.panel)) =>
       LET first  == EdgeLength(result.panel.corners[1], result.panel.corners[2])
           second == EdgeLength(result.panel.corners[1], result.panel.corners[4])
       IN  /\ result.spacings[1][1] > 0
           /\ result.spacings[2][1] > 0
           /\ RLe(RMul(R(2), result.spacings[1]), first)
           /\ RLe(RMul(R(2), result.spacings[2]), second)
           /\ LinesOfType(result.lines, "horizontal") # << >>
           /\ LinesOfType(result.lines, "vertical") # << >>

(* C27: for a panel following the corner convention the interior lines     *)
(* along an axis are exactly those at offsets i * spacing with             *)
(* 0 < i * spacing < extent, none on a bounding edge; lines of constant    *)
(* depth or height are tagged horizontal, the others vertical.             *)
C27_InteriorLinesAtSpacingMultiples ==
    (result.op = "generate_interior_grid" /\ Conventional(result.panel)) =>
       LET c      == result.panel.corners
           first  == EdgeAxis(c[1], c[2])
           second == EdgeAxis(c[1], c[4])
       IN  /\ OffsetsAlong(result.lines, "vertical", c[1], first)
                 = MultiplesBelow(result.spacings[1], EdgeLength(c[1], c[2]))
           /\ OffsetsAlong(result.lines, "horizontal", c[1], second)
                 = MultiplesBelow(result.spacings[2], EdgeLength(c[1], c[4]))
           /\ \A i \in DOMAIN result.lines :
                 /\ result.lines[i].line_type \in {"horizontal", "vertical"}
                 /\ result.lines[i].line_type = "horizontal" =>
                       Coord(result.lines[i].start, second)
                          = Coord(result.lines[i].end, second)
                 /\ result.lines[i].line_type = "vertical" =>
                       Coord(result.lines[i].start, first)
                          = Coord(result.lines[i].end, first)

(* A wall whose height is an exact multiple of the spacing: four lines     *)
(* of constant height, none on the top edge.                               *)
C27_Witness ==
    /\ result.op = "generate_interior_grid"
    /\ Conventional(result.panel)
    /\ result.panel.panel_type = "wall"
    /\ RMul(R(5), result.spacings[2])
          = EdgeLength(result.panel.corners[1], result.panel.corners[4])
    /\ Len(LinesOfType(result.lines, "horizontal")) = 4

(* C30: two wall panels with the same corners and panel_type but different *)
(* labels get the same interior lines at the same 3D positions.            *)
C30_WallGridIndependentOfLabel ==
    (result.op = "generate_interior_grid" /\ result.panel.panel_type = "wall") =>
       \A label \in WallLabels :
          InteriorGrid3D(result.config, [result.panel EXCEPT !.label = label])
             = result.lines

====
